---- MODULE Spec2Model ----
(***************************************************************************)
(* State-machine model of helpers/hydra_db.py: the connection provider     *)
(* (_ensure_connection), the statement executors (fetch, fetchrow,         *)
(* execute, executemany), the resource resolver                            *)
(* (get_table_name_for_resource), the table explorer (explore_table) and   *)
(* the resource explorer (explore_resource), running against a relational  *)
(* store that parses and executes the statement text it is sent.           *)
(*                                                                         *)
(* Text is a sequence of lexemes.  A lexeme is one character of a name     *)
(* ("t", "s", "g", ".", ";", the double quote) or one fixed fragment of    *)
(* SQL ("SELECT_COUNT_FROM", "SELECT_FROM", "LIMIT_OFFSET", "DROP",        *)
(* "SELECT_INDEX", "INSERT_INTO").  An optional value (Python's None) is a *)
(* sequence of length 0 or 1.                                              *)
(***************************************************************************)
EXTENDS Integers, Sequences, FiniteSets, TLC

VARIABLES
  tables,        \* the store's catalog: <<schema, table>> -> sequence of rows
  tables_index,  \* the rows of tables_index, in storage order
  conns,         \* connection id -> "free" | "open" | "closed"
  pending,       \* connection id -> uncommitted inserts of its transaction
  stack,         \* task -> call stack of coroutine frames, innermost last
  call,          \* task -> the top-level call: its inputs, status and outcome
  log,           \* task -> what the call did, in order (connects, statements, ...)
  sizes,         \* task -> table -> the row counts the table had during the call
  writes         \* number of steps the concurrent writer has taken

vars == <<tables, tables_index, conns, pending, stack, call, log, sizes, writes>>

----------------------------------------------------------------------------
(* Bounds of the model.                                                    *)

MaxLimit == 2
MaxOffset == 2
MaxRows == 4
MaxWrites == 1
MaxBatch == 2
MaxRefLen == 3

(* Optional values.                                                        *)
None == <<>>
Some(x) == <<x>>

Min(a, b) == IF a < b THEN a ELSE b
Max(a, b) == IF a > b THEN a ELSE b

Q == "\""

----------------------------------------------------------------------------
(* Python and psycopg text functions used by explore_table.                *)

RECURSIVE SplitFrom(_, _, _, _)
SplitFrom(s, i, cur, acc) ==
  IF i > Len(s) THEN Append(acc, cur)
  ELSE IF s[i] = "." THEN SplitFrom(s, i + 1, <<>>, Append(acc, cur))
  ELSE SplitFrom(s, i + 1, Append(cur, s[i]), acc)

\* table_name.split(".")
Split(s) == SplitFrom(s, 1, <<>>, <<>>)

RECURSIVE EscapeQuotes(_)
EscapeQuotes(part) ==
  IF part = <<>> THEN <<>>
  ELSE (IF Head(part) = Q THEN <<Q, Q>> ELSE <<Head(part)>>) \o EscapeQuotes(Tail(part))

\* The part put into the text as it is.
Identifier_Unquoted(part) == part

\* sql.Identifier(part), as the text it renders to
Identifier(part) == <<Q>> \o EscapeQuotes(part) \o <<Q>>

RECURSIVE Join(_, _)
\* sql.SQL(sep).join(items)
Join(sep, items) ==
  IF items = <<>> THEN <<>>
  ELSE IF Len(items) = 1 THEN items[1]
  ELSE items[1] \o sep \o Join(sep, Tail(items))

Identifiers(table_name) ==
  LET parts == Split(table_name) IN [i \in 1..Len(parts) |-> Identifier(parts[i])]

\* sql.SQL("SELECT COUNT(*) as count FROM {}").format(...)
CountQuery(table_name) == <<"SELECT_COUNT_FROM">> \o Join(<<".">>, Identifiers(table_name))

\* sql.SQL("SELECT * FROM {} LIMIT %s OFFSET %s").format(...)
SelectQuery(table_name) ==
  <<"SELECT_FROM">> \o Join(<<".">>, Identifiers(table_name)) \o <<"LIMIT_OFFSET">>

----------------------------------------------------------------------------
(* The relational store: how it reads statement text.                      *)

Keywords ==
  {"SELECT_COUNT_FROM", "SELECT_FROM", "LIMIT_OFFSET", "SELECT_INDEX",
   "INSERT_INTO", "DROP", "COMMIT"}

IsIdentChar(c) == c \notin Keywords \cup {".", ";", Q, " "}

\* The schema an unqualified table name resolves to, and the current database.
PublicSchema == <<"p">>
CurrentDb == <<"d">>

RECURSIVE SplitStatements(_, _, _, _, _)
\* The statements of a text: it is cut at every ";" outside a quoted identifier.
SplitStatements(txt, i, inq, cur, acc) ==
  IF i > Len(txt) THEN Append(acc, cur)
  ELSE IF txt[i] = Q THEN SplitStatements(txt, i + 1, ~inq, Append(cur, txt[i]), acc)
  ELSE IF txt[i] = ";" /\ ~inq THEN SplitStatements(txt, i + 1, inq, <<>>, Append(acc, cur))
  ELSE SplitStatements(txt, i + 1, inq, Append(cur, txt[i]), acc)

RECURSIVE ParseName(_, _, _, _, _)
\* A possibly qualified name: identifiers separated by ".", each quoted (any
\* text between double quotes, a doubled quote standing for one) or bare.
\* The result is the sequence of identifiers, or None on a syntax error.
ParseName(txt, i, mode, cur, acc) ==
  IF i > Len(txt) THEN
    CASE mode = "bare" -> Some(Append(acc, cur))
      [] mode \in {"afterq", "after"} ->
           IF cur = <<>> THEN None ELSE Some(Append(acc, cur))
      [] OTHER -> None
  ELSE
    LET c == txt[i] IN
    CASE mode = "start" ->
           IF c = " " THEN ParseName(txt, i + 1, "start", cur, acc)
           ELSE IF c = Q THEN ParseName(txt, i + 1, "quoted", <<>>, acc)
           ELSE IF IsIdentChar(c) THEN ParseName(txt, i + 1, "bare", <<c>>, acc)
           ELSE None
      [] mode = "bare" ->
           IF IsIdentChar(c) THEN ParseName(txt, i + 1, "bare", Append(cur, c), acc)
           ELSE IF c = "." THEN ParseName(txt, i + 1, "start", <<>>, Append(acc, cur))
           ELSE IF c = " " THEN ParseName(txt, i + 1, "after", cur, acc)
           ELSE None
      [] mode = "quoted" ->
           IF c = Q THEN ParseName(txt, i + 1, "afterq", cur, acc)
           ELSE ParseName(txt, i + 1, "quoted", Append(cur, c), acc)
      [] mode = "afterq" ->
           IF c = Q THEN ParseName(txt, i + 1, "quoted", Append(cur, Q), acc)
           ELSE IF cur = <<>> THEN None
           ELSE IF c = "." THEN ParseName(txt, i + 1, "start", <<>>, Append(acc, cur))
           ELSE IF c = " " THEN ParseName(txt, i + 1, "after", cur, acc)
           ELSE None
      [] OTHER ->
           IF c = " " THEN ParseName(txt, i + 1, "after", cur, acc)
           ELSE IF c = "." THEN ParseName(txt, i + 1, "start", <<>>, Append(acc, cur))
           ELSE None

RECURSIVE StripSpaces(_)
StripSpaces(txt) ==
  IF txt # <<>> /\ Head(txt) = " " THEN StripSpaces(Tail(txt)) ELSE txt

\* One statement: [kind, name, paged], kind "empty" for blank text and
\* "error" for text the store cannot parse.
ParseStatement(raw) ==
  LET txt == StripSpaces(raw)
      bad == [kind |-> "error", name |-> <<>>, paged |-> FALSE]
  IN
  IF txt = <<>> THEN [kind |-> "empty", name |-> <<>>, paged |-> FALSE]
  ELSE
    LET head == Head(txt)
        rest == Tail(txt)
        paged == rest # <<>> /\ rest[Len(rest)] = "LIMIT_OFFSET"
        nameTxt == IF paged THEN SubSeq(rest, 1, Len(rest) - 1) ELSE rest
        name == ParseName(nameTxt, 1, "start", <<>>, <<>>)
    IN
    CASE head \in {"SELECT_INDEX", "COMMIT"} ->
           IF StripSpaces(rest) = <<>>
           THEN [kind |-> head, name |-> <<>>, paged |-> FALSE] ELSE bad
      [] head \in {"SELECT_COUNT_FROM", "INSERT_INTO", "DROP"} ->
           IF paged \/ name = None THEN bad
           ELSE [kind |-> head, name |-> name[1], paged |-> FALSE]
      [] head = "SELECT_FROM" ->
           IF name = None THEN bad
           ELSE [kind |-> head, name |-> name[1], paged |-> paged]
      [] OTHER -> bad

\* The statements of a text, blank ones dropped.
ParseText(txt) ==
  LET raw == SplitStatements(txt, 1, FALSE, <<>>, <<>>)
      all == [i \in 1..Len(raw) |-> ParseStatement(raw[i])]
  IN SelectSeq(all, LAMBDA st : st.kind # "empty")

\* The catalog key a parsed name denotes: Some(<<schema, table>>), or the
\* error the store answers with.
ResolveName(name) ==
  CASE Len(name) = 1 -> [err |-> "none", key |-> <<PublicSchema, name[1]>>]
    [] Len(name) = 2 -> [err |-> "none", key |-> <<name[1], name[2]>>]
    [] Len(name) = 3 ->
         IF name[1] = CurrentDb
         THEN [err |-> "none", key |-> <<name[2], name[3]>>]
         ELSE [err |-> "FeatureNotSupported", key |-> <<>>]
    [] OTHER -> [err |-> "SyntaxError", key |-> <<>>]

----------------------------------------------------------------------------
(* The relational store: how it executes statements.  A connection's       *)
(* transaction holds its uncommitted effects; COMMIT applies them to the   *)
(* catalog, closing the connection drops them.                             *)

ApplyEffect(cat, e) ==
  IF e.key \notin DOMAIN cat THEN cat
  ELSE IF e.op = "insert" THEN [cat EXCEPT ![e.key] = Append(@, e.row)]
  ELSE [k \in DOMAIN cat \ {e.key} |-> cat[k]]

RECURSIVE ApplyEffects(_, _)
ApplyEffects(cat, effs) ==
  IF effs = <<>> THEN cat ELSE ApplyEffects(ApplyEffect(cat, Head(effs)), Tail(effs))

\* LIMIT limit OFFSET offset over rows in storage order
Window(rows, limit, offset) == SubSeq(rows, offset + 1, Min(Len(rows), offset + limit))

\* One parsed statement run in the state st = [cat, eff, err, rows, n].
RunStatement(st, stmt, params, index) ==
  LET visible == ApplyEffects(st.cat, st.eff)
      res == ResolveName(stmt.name)
      done == [st EXCEPT !.n = @ + 1]
      fail(e) == [st EXCEPT !.err = e]
      result(r) == IF st.n = 0 THEN [done EXCEPT !.rows = r] ELSE done
  IN
  CASE stmt.kind = "SELECT_INDEX" ->
         result(SelectSeq(index, LAMBDA rec : rec.resource_id = params[1]))
    [] stmt.kind = "COMMIT" ->
         [done EXCEPT !.cat = visible, !.eff = <<>>]
    [] res.err # "none" -> fail(res.err)
    [] res.key \notin DOMAIN visible -> fail("UndefinedTable")
    [] stmt.kind = "SELECT_COUNT_FROM" ->
         result(<<[count |-> Len(visible[res.key])]>>)
    [] stmt.kind = "SELECT_FROM" ->
         result(IF stmt.paged THEN Window(visible[res.key], params[1], params[2])
                ELSE visible[res.key])
    [] stmt.kind = "INSERT_INTO" ->
         [done EXCEPT !.eff = Append(@, [op |-> "insert", key |-> res.key, row |-> params[1]])]
    [] OTHER ->
         [done EXCEPT !.eff = Append(@, [op |-> "drop", key |-> res.key, row |-> ""])]

RECURSIVE RunStatements(_, _, _, _)
RunStatements(st, stmts, params, index) ==
  IF stmts = <<>> \/ st.err # "none" THEN st
  ELSE RunStatements(RunStatement(st, Head(stmts), params, index), Tail(stmts), params, index)

\* cur.execute(text, params) as the store answers it, on a connection whose
\* transaction holds eff: [cat, eff, err, rows, n], n the number of statements
\* the store took from the text (0 when it rejects the text as a whole).  Text
\* sent with parameters is one prepared statement.
ExecText(text, params, cat, eff, index) ==
  LET stmts == ParseText(text)
      st0 == [cat |-> cat, eff |-> eff, err |-> "none", rows |-> <<>>, n |-> 0]
      out == RunStatements(st0, stmts, params, index)
  IN
  IF (\E i \in 1..Len(stmts) : stmts[i].kind = "error")
     \/ (params # None /\ Len(stmts) > 1)
  THEN [st0 EXCEPT !.err = "SyntaxError"]
  ELSE IF out.err # "none" THEN [out EXCEPT !.eff = <<>>, !.rows = <<>>, !.n = Len(stmts)]
  ELSE out

----------------------------------------------------------------------------
(* Coroutine frames.  A task's call stack holds one frame per coroutine    *)
(* that is running or awaiting the frame above it.                         *)

NoConn == 0

Tasks == DOMAIN stack
ConnIds == DOMAIN conns

NewFrame(fn, connection, query, args, resource_id, table_name, limit, offset) ==
  [fn |-> fn, pc |-> IF fn = "get_table_name_for_resource" THEN "call" ELSE "ensure",
   connection |-> connection, conn |-> NoConn, owned |-> FALSE,
   query |-> query, args |-> args, i |-> 1,
   resource_id |-> resource_id, table_name |-> table_name,
   limit |-> limit, offset |-> offset,
   total_count |-> 0, rows |-> <<>>, ret |-> None, exc |-> "none"]

Top(t) == stack[t][Len(stack[t])]
Running(t) == stack[t] # <<>>
At(t, fns, pc) == Running(t) /\ Top(t).fn \in fns /\ Top(t).pc = pc

SetTop(t, f) == [stack EXCEPT ![t] = [@ EXCEPT ![Len(@)] = f]]
Push(t, f, g) == [stack EXCEPT ![t] = Append([@ EXCEPT ![Len(@)] = f], g)]

Event(ev, f, conn, q, err, n) ==
  [ev |-> ev, fn |-> f.fn, conn |-> conn, q |-> q, err |-> err, n |-> n]
Logged(t, e) == [log EXCEPT ![t] = Append(@, e)]

\* Every running call has seen the row counts of the catalog cat.
SizesAfter(cat) ==
  [t \in Tasks |->
    IF call[t].status # "running" THEN sizes[t]
    ELSE [k \in DOMAIN sizes[t] |->
           IF k \in DOMAIN cat THEN sizes[t][k] \cup {Len(cat[k])} ELSE sizes[t][k]]]

\* explore_table selecting its rows without counting first.
Body_SelectFirst(fn) ==
  CASE fn = "explore_table" -> "select"
    [] fn = "explore_resource" -> "resolve"
    [] OTHER -> "execute"

\* The first statement after the try: of each coroutine.
Body(fn) ==
  CASE fn = "explore_table" -> "count"
    [] fn = "explore_resource" -> "resolve"
    [] OTHER -> "execute"

\* if connection is not None: return connection, False
EnsureSupplied(t) ==
  /\ At(t, {"fetch", "fetchrow", "execute", "executemany", "explore_table",
            "explore_resource"}, "ensure")
  /\ Top(t).connection # NoConn
  /\ stack' = SetTop(t, [Top(t) EXCEPT !.conn = Top(t).connection, !.owned = FALSE,
                                       !.pc = Body(Top(t).fn)])
  /\ UNCHANGED <<tables, tables_index, conns, pending, call, log, sizes, writes>>

\* One connection kept by the module and handed to every call.
FreshConn_Shared ==
  CHOOSE c \in ConnIds : c > Cardinality(Tasks) /\ \A d \in ConnIds : d > Cardinality(Tasks) => c <= d

FreshConn == CHOOSE c \in ConnIds : conns[c] = "free" /\ \A d \in ConnIds : conns[d] = "free" => c <= d

\* conn = await psycopg.AsyncConnection.connect(...); return conn, True
ConnectOk(t) ==
  /\ At(t, {"fetch", "fetchrow", "execute", "executemany", "explore_table",
            "explore_resource"}, "ensure")
  /\ Top(t).connection = NoConn
  /\ \E c \in ConnIds : conns[c] = "free"
  /\ conns' = [conns EXCEPT ![FreshConn] = "open"]
  /\ stack' = SetTop(t, [Top(t) EXCEPT !.conn = FreshConn, !.owned = TRUE,
                                       !.pc = Body(Top(t).fn)])
  /\ log' = Logged(t, Event("connect", Top(t), FreshConn, <<>>, "none", 0))
  /\ UNCHANGED <<tables, tables_index, pending, call, sizes, writes>>

\* A test for None only: "if table_name is None".
Falsy_NoneOnly(v) == v = None

\* "if not table_name": None and the empty string are both false
Falsy(v) == v = None \/ v = Some(<<>>)

\* A not-found result that reports the default window, not the one asked for.
NotFoundResult_DefaultWindow(f) ==
  [resource_id |-> f.resource_id, table_name |-> None, rows |-> <<>>, count |-> 0,
   limit |-> f.limit, offset |-> 0]

NotFoundResult(f) ==
  [resource_id |-> f.resource_id, table_name |-> None, rows |-> <<>>, count |-> 0,
   limit |-> f.limit, offset |-> f.offset]

\* result["resource_id"] = resource_id; result["table_name"] = table_name
Merged(f, result) ==
  [resource_id |-> f.resource_id, table_name |-> f.table_name, rows |-> result.rows,
   count |-> result.count, limit |-> result.limit, offset |-> result.offset]

\* The table-not-found error caught and turned into the not-found result.
Raised_AsNotFound(f, err) ==
  IF f.fn = "explore_resource" /\ err = "UndefinedTable"
  THEN [f EXCEPT !.ret = NotFoundResult(f), !.pc = "exit"]
  ELSE [f EXCEPT !.exc = err, !.pc = "exit"]

\* The failed step tried again instead of the error leaving the coroutine.
Raised_Retry(f, err) == f

\* An error raised inside the try: of coroutine f, by a statement or by the
\* coroutine it awaits: nothing catches it, it leaves through the finally.
Raised(f, err) == [f EXCEPT !.exc = err, !.pc = "exit"]

\* What an awaiting coroutine does when the coroutine it awaits returns ret
\* or raises exc, up to its next await.
Resume(f, ret, exc) ==
  CASE exc # "none" -> Raised(f, exc)
    [] f.fn = "get_table_name_for_resource" ->
         \* return row["parsing_table"] if row else None
         [f EXCEPT !.ret = IF ret # None THEN ret[1].parsing_table ELSE None, !.pc = "exit"]
    [] f.fn = "explore_resource" /\ f.pc = "resolve_wait" ->
         IF Falsy(ret)
         THEN [f EXCEPT !.table_name = ret, !.ret = NotFoundResult(f), !.pc = "exit"]
         ELSE [f EXCEPT !.table_name = ret, !.pc = "explore"]
    [] OTHER ->
         [f EXCEPT !.ret = Merged(f, ret), !.pc = "exit"]

\* The innermost coroutine of task t ends, returning ret or raising exc.
LeaveStack(t, ret, exc) ==
  LET s == stack[t]
      n == Len(s)
  IN IF n = 1 THEN [stack EXCEPT ![t] = <<>>]
     ELSE [stack EXCEPT ![t] = Append(SubSeq(s, 1, n - 2), Resume(s[n - 1], ret, exc))]

LeaveCall(t, ret, exc) ==
  IF Len(stack[t]) > 1 THEN call
  ELSE [call EXCEPT ![t].status = IF exc = "none" THEN "returned" ELSE "raised",
                    ![t].result = ret, ![t].exc = exc]

\* psycopg.AsyncConnection.connect raises: the error leaves _ensure_connection
\* and the coroutine that called it, which has not entered its try yet.
ConnectFail(t) ==
  /\ At(t, {"fetch", "fetchrow", "execute", "executemany", "explore_table",
            "explore_resource"}, "ensure")
  /\ Top(t).connection = NoConn
  /\ log' = Logged(t, Event("connect", Top(t), NoConn, <<>>, "ConnectionError", 0))
  /\ stack' = LeaveStack(t, None, "ConnectionError")
  /\ call' = LeaveCall(t, None, "ConnectionError")
  /\ UNCHANGED <<tables, tables_index, conns, pending, sizes, writes>>

\* A release written after the body instead of in a finally clause.
ClosesOnExit_OnlyOnSuccess(f) == f.owned /\ f.exc = "none"

\* Every coroutine closing the connection it used, supplied or not.
ClosesOnExit_Always(f) == f.conn # NoConn

\* finally: if owned: await conn.close()
ClosesOnExit(f) == f.owned

\* The finally clause of a coroutine and its return or raise.
Exit(t) ==
  /\ Running(t) /\ Top(t).pc = "exit"
  /\ LET f == Top(t) IN
     /\ IF ClosesOnExit(f)
        THEN /\ conns' = [conns EXCEPT ![f.conn] = "closed"]
             /\ pending' = [pending EXCEPT ![f.conn] = <<>>]
             /\ log' = Logged(t, Event("close", f, f.conn, <<>>, "none", 0))
        ELSE UNCHANGED <<conns, pending, log>>
     /\ stack' = LeaveStack(t, f.ret, f.exc)
     /\ call' = LeaveCall(t, f.ret, f.exc)
  /\ UNCHANGED <<tables, tables_index, sizes, writes>>

----------------------------------------------------------------------------
(* Statements.                                                             *)

\* await cur.execute(text, params) on connection c: what the store answers.
\* A closed connection raises before anything is sent; the store may fail
\* any statement (fault).
Send(c, text, params, fault) ==
  LET nothing(e) == [cat |-> tables, eff |-> pending[c], err |-> e, rows |-> <<>>, n |-> 0]
  IN IF conns[c] # "open" THEN nothing("OperationalError")
     ELSE IF fault THEN nothing("ExecutionError")
     ELSE ExecText(text, params, tables, pending[c], tables_index)

\* The effect of one cur.execute on the store and on the log of task t.
Sent(t, f, text, r) ==
  /\ tables' = r.cat
  /\ pending' = [pending EXCEPT ![f.conn] = r.eff]
  /\ sizes' = SizesAfter(r.cat)
  /\ log' = Logged(t, Event("stmt", f, f.conn, text, r.err, r.n))
  /\ UNCHANGED <<tables_index, conns, call, writes>>

\* A read that commits before it returns, as execute does.
Fetched_ThenCommit(f, ret) == [f EXCEPT !.ret = ret, !.pc = "commit"]

\* A read returns what it fetched: no statement and no commit follows.
Fetched(f, ret) == [f EXCEPT !.ret = ret, !.pc = "exit"]

\* fetch: await cur.execute(query, args or None); rows = await cur.fetchall()
FetchExecute(t) ==
  /\ At(t, {"fetch"}, "execute")
  /\ \E fault \in BOOLEAN :
       LET f == Top(t)
           r == Send(f.conn, f.query, f.args, fault)
       IN /\ Sent(t, f, f.query, r)
          /\ stack' = SetTop(t, IF r.err # "none" THEN Raised(f, r.err)
                                ELSE Fetched(f, r.rows))

\* The last row of the result taken instead of the first.
FirstRow_Last(rows) == IF rows # <<>> THEN Some(rows[Len(rows)]) ELSE None

\* row = await cur.fetchone(); return dict(row) if row else None
FirstRow(rows) == IF rows # <<>> THEN Some(rows[1]) ELSE None

FetchrowExecute(t) ==
  /\ At(t, {"fetchrow"}, "execute")
  /\ \E fault \in BOOLEAN :
       LET f == Top(t)
           r == Send(f.conn, f.query, f.args, fault)
       IN /\ Sent(t, f, f.query, r)
          /\ stack' = SetTop(t, IF r.err # "none" THEN Raised(f, r.err)
                                ELSE Fetched(f, FirstRow(r.rows)))

\* The status returned straight after the statement, the commit left out.
AfterStatement_NoCommit(f) == [f EXCEPT !.ret = Some("INSERT"), !.pc = "exit"]

\* execute, after its statement: await conn.commit() comes next
AfterStatement(f) == [f EXCEPT !.pc = "commit"]

\* execute: await cur.execute(query, args or None)
ExecuteExecute(t) ==
  /\ At(t, {"execute"}, "execute")
  /\ \E fault \in BOOLEAN :
       LET f == Top(t)
           r == Send(f.conn, f.query, f.args, fault)
       IN /\ Sent(t, f, f.query, r)
          /\ stack' = SetTop(t, IF r.err # "none" THEN Raised(f, r.err)
                                ELSE AfterStatement(f))

\* executemany: await cur.executemany(query, args_iterable), one argument
\* tuple at a time
ExecutemanyExecute(t) ==
  /\ At(t, {"executemany"}, "execute")
  /\ Top(t).i <= Len(Top(t).args)
  /\ \E fault \in BOOLEAN :
       LET f == Top(t)
           r == Send(f.conn, f.query, f.args[f.i], fault)
       IN /\ Sent(t, f, f.query, r)
          /\ stack' = SetTop(t, IF r.err # "none" THEN Raised(f, r.err)
                                ELSE [f EXCEPT !.i = @ + 1])

\* await conn.commit(); execute then returns cur.statusmessage or ""
Commit(t) ==
  /\ \/ Running(t) /\ Top(t).pc = "commit"
     \/ At(t, {"executemany"}, "execute") /\ Top(t).i > Len(Top(t).args)
  /\ \E fault \in BOOLEAN :
       LET f == Top(t)
           err == IF conns[f.conn] # "open" THEN "OperationalError"
                  ELSE IF fault THEN "ExecutionError" ELSE "none"
           cat == IF err = "none" THEN ApplyEffects(tables, pending[f.conn]) ELSE tables
       IN /\ tables' = cat
          /\ sizes' = SizesAfter(cat)
          /\ pending' = [pending EXCEPT ![f.conn] = <<>>]
          /\ log' = Logged(t, Event("commit", f, f.conn, <<>>, err, 0))
          /\ stack' = SetTop(t, IF err # "none" THEN Raised(f, err)
                                ELSE [f EXCEPT !.pc = "exit",
                                               !.ret = IF f.fn = "executemany" THEN None ELSE Some("INSERT")])
  /\ UNCHANGED <<tables_index, conns, call, writes>>

----------------------------------------------------------------------------
(* The table explorer and the resource explorer.                           *)

\* A total taken from the number of rows fetched, not from the count column.
TotalCount_RowsFetched(rows) == Len(rows)

\* total_count = count_row["count"] if count_row else 0
TotalCount(rows) == IF rows # <<>> THEN rows[1].count ELSE 0

\* await cur.execute(count_query); count_row = await cur.fetchone()
Count(t) ==
  /\ At(t, {"explore_table"}, "count")
  /\ \E fault \in BOOLEAN :
       LET f == Top(t)
           text == CountQuery(f.table_name[1])
           r == Send(f.conn, text, None, fault)
       IN /\ Sent(t, f, text, r)
          /\ stack' = SetTop(t, IF r.err # "none" THEN Raised(f, r.err)
                                ELSE [f EXCEPT !.total_count = TotalCount(r.rows),
                                               !.pc = "select"])

\* The two parameters bound in the wrong order.
SelectParams_Swapped(f) == <<f.offset, f.limit>>

\* the parameters (limit, offset) of the row selection
SelectParams(f) == <<f.limit, f.offset>>

\* count taken from the page instead of the counting statement.
ExploreResult_CountOfPage(f, rows) ==
  [rows |-> rows, count |-> Len(rows), limit |-> f.limit, offset |-> f.offset]

ExploreResult(f, rows) ==
  [rows |-> rows, count |-> f.total_count, limit |-> f.limit, offset |-> f.offset]

\* await cur.execute(select_query, (limit, offset)); rows = await cur.fetchall()
Select(t) ==
  /\ At(t, {"explore_table"}, "select")
  /\ \E fault \in BOOLEAN :
       LET f == Top(t)
           text == SelectQuery(f.table_name[1])
           r == Send(f.conn, text, SelectParams(f), fault)
       IN /\ Sent(t, f, text, r)
          /\ stack' = SetTop(t, IF r.err # "none" THEN Raised(f, r.err)
                                ELSE Fetched([f EXCEPT !.rows = r.rows],
                                             ExploreResult(f, r.rows)))

\* The caller's argument handed on instead of the connection obtained.
NestedConnection_Argument(f) == f.connection

\* The connection explore_resource hands to the coroutines it calls.
NestedConnection(f) == f.conn

\* table_name = await get_table_name_for_resource(resource_id, connection=conn)
CallResolver(t) ==
  /\ At(t, {"explore_resource"}, "resolve")
  /\ LET f == Top(t) IN
     stack' = Push(t, [f EXCEPT !.pc = "resolve_wait"],
                   NewFrame("get_table_name_for_resource", NestedConnection(f), <<>>, <<>>,
                            f.resource_id, None, 0, 0))
  /\ UNCHANGED <<tables, tables_index, conns, pending, call, log, sizes, writes>>

\* row = await fetchrow("SELECT parsing_table FROM tables_index WHERE
\* resource_id = %s", resource_id, connection=connection)
CallFetchrow(t) ==
  /\ At(t, {"get_table_name_for_resource"}, "call")
  /\ LET f == Top(t) IN
     stack' = Push(t, [f EXCEPT !.pc = "wait"],
                   NewFrame("fetchrow", f.connection, <<"SELECT_INDEX">>, <<f.resource_id>>,
                            "", None, 0, 0))
  /\ UNCHANGED <<tables, tables_index, conns, pending, call, log, sizes, writes>>

\* result = await explore_table(table_name, limit=limit, offset=offset, connection=conn)
CallExploreTable(t) ==
  /\ At(t, {"explore_resource"}, "explore")
  /\ LET f == Top(t) IN
     stack' = Push(t, [f EXCEPT !.pc = "explore_wait"],
                   NewFrame("explore_table", NestedConnection(f), <<>>, <<>>,
                            "", f.table_name, f.limit, f.offset))
  /\ UNCHANGED <<tables, tables_index, conns, pending, call, log, sizes, writes>>

----------------------------------------------------------------------------
(* The environment: the ingestion pipeline writing to the tables, and the  *)
(* callers.                                                                *)

NewRow == "new"

WriterInsert ==
  /\ writes < MaxWrites
  /\ \E t \in Tasks : call[t].status \in {"idle", "running"}
  /\ \E k \in DOMAIN tables :
       /\ Len(tables[k]) < MaxRows
       /\ tables' = [tables EXCEPT ![k] = Append(@, NewRow)]
       /\ sizes' = SizesAfter(tables')
  /\ writes' = writes + 1
  /\ UNCHANGED <<tables_index, conns, pending, stack, call, log>>

WriterDelete ==
  /\ writes < MaxWrites
  /\ \E t \in Tasks : call[t].status \in {"idle", "running"}
  /\ \E k \in DOMAIN tables :
       /\ tables[k] # <<>>
       /\ tables' = [tables EXCEPT ![k] = Tail(@)]
       /\ sizes' = SizesAfter(tables')
  /\ writes' = writes + 1
  /\ UNCHANGED <<tables_index, conns, pending, stack, call, log>>

\* The connection the caller of task t may supply: open, and the caller's own.
CallerConn(t) == t

\* A caller starts the call c = [op, connection, query, args, resource_id,
\* table_name, limit, offset].
Begin(t, c) ==
  /\ call[t].status = "idle"
  /\ call' = [call EXCEPT ![t] = [c EXCEPT !.status = "running"]]
  /\ stack' = [stack EXCEPT ![t] =
                 <<NewFrame(c.op, c.connection, c.query, c.args, c.resource_id,
                            c.table_name, c.limit, c.offset)>>]
  /\ sizes' = [sizes EXCEPT ![t] = [k \in DOMAIN @ |->
                 IF k \in DOMAIN tables THEN {Len(tables[k])} ELSE {}]]
  /\ UNCHANGED <<tables, tables_index, conns, pending, log, writes>>

NewCall(op, connection, query, args, resource_id, table_name, limit, offset) ==
  [status |-> "idle", op |-> op, connection |-> connection, query |-> query,
   args |-> args, resource_id |-> resource_id, table_name |-> table_name,
   limit |-> limit, offset |-> offset, result |-> None, exc |-> "none"]

----------------------------------------------------------------------------
(* The store at the start and the calls made.                              *)

T == <<"t">>
ST == <<"s", ".", "t">>

InitTables ==
  (<<PublicSchema, <<"t">>>> :> <<"r1">>) @@ (<<<<"s">>, <<"t">>>> :> <<"r1", "r2", "r3">>)

\* One Index Record per resource: a schema-qualified table, a plain table, a
\* table that does not exist, an empty and a null parsing_table, and a
\* resource_id recorded twice.
InitIndex ==
  << [resource_id |-> "abc", parsing_table |-> Some(ST)],
     [resource_id |-> "plain", parsing_table |-> Some(T)],
     [resource_id |-> "stale", parsing_table |-> Some(<<"g">>)],
     [resource_id |-> "empty", parsing_table |-> Some(<<>>)],
     [resource_id |-> "null", parsing_table |-> None],
     [resource_id |-> "dup", parsing_table |-> Some(T)],
     [resource_id |-> "dup", parsing_table |-> Some(ST)] >>

ResourceIds == {"abc", "plain", "stale", "empty", "null", "dup", "missing-id"}

Limits == 1..MaxLimit
Offsets == 0..MaxOffset

LookupText == <<"SELECT_INDEX">>
ScanText == <<"SELECT_FROM">> \o Identifier(<<"t">>)
InsertText == <<"INSERT_INTO">> \o Identifier(<<"t">>)

Batches == UNION {[1..n -> {<<NewRow>>}] : n \in 0..MaxBatch}

Connections(t) == {NoConn, CallerConn(t)}

ExploreResourceCalls(t) ==
  {NewCall("explore_resource", c, <<>>, <<>>, r, None, l, o) :
     c \in Connections(t), r \in ResourceIds, l \in Limits, o \in Offsets}

ExploreTableCalls(t, refs) ==
  {NewCall("explore_table", c, <<>>, <<>>, "", Some(n), l, o) :
     c \in Connections(t), n \in refs, l \in Limits, o \in Offsets}

ResolverCalls(t) ==
  {NewCall("get_table_name_for_resource", c, <<>>, <<>>, r, None, 0, 0) :
     c \in Connections(t), r \in ResourceIds}

ReadCalls(t) ==
  {NewCall(op, c, LookupText, <<r>>, "", None, 0, 0) :
     op \in {"fetch", "fetchrow"}, c \in Connections(t), r \in ResourceIds}
  \cup {NewCall(op, c, ScanText, <<>>, "", None, 0, 0) :
     op \in {"fetch", "fetchrow"}, c \in Connections(t)}

WriteCalls(t) ==
  {NewCall("execute", c, InsertText, <<NewRow>>, "", None, 0, 0) : c \in Connections(t)}
  \cup {NewCall("executemany", c, InsertText, b, "", None, 0, 0) :
     c \in Connections(t), b \in Batches}

MainRefs == {T, ST, <<"p", ".", "t">>, <<"g">>, <<"s", ".", "g">>}

StartExploreResource(t) == \E c \in ExploreResourceCalls(t) : Begin(t, c)
StartExploreTable(t) == \E c \in ExploreTableCalls(t, MainRefs) : Begin(t, c)
StartResolver(t) == \E c \in ResolverCalls(t) : Begin(t, c)
StartRead(t) == \E c \in ReadCalls(t) : Begin(t, c)
StartWrite(t) == \E c \in WriteCalls(t) : Begin(t, c)

InitWith(n) ==
  /\ tables = InitTables
  /\ tables_index = InitIndex
  /\ conns = [c \in 1..(4 * n) |-> IF c <= n THEN "open" ELSE "free"]
  /\ pending = [c \in 1..(4 * n) |-> <<>>]
  /\ stack = [t \in 1..n |-> <<>>]
  /\ call = [t \in 1..n |-> NewCall("none", NoConn, <<>>, <<>>, "", None, 0, 0)]
  /\ log = [t \in 1..n |-> <<>>]
  /\ sizes = [t \in 1..n |-> [k \in DOMAIN InitTables |-> {}]]
  /\ writes = 0

Init == InitWith(1)

Next ==
  \/ \E t \in Tasks : StartExploreResource(t)
  \/ \E t \in Tasks : StartExploreTable(t)
  \/ \E t \in Tasks : StartResolver(t)
  \/ \E t \in Tasks : StartRead(t)
  \/ \E t \in Tasks : StartWrite(t)
  \/ \E t \in Tasks : EnsureSupplied(t)
  \/ \E t \in Tasks : ConnectOk(t)
  \/ \E t \in Tasks : ConnectFail(t)
  \/ \E t \in Tasks : FetchExecute(t)
  \/ \E t \in Tasks : FetchrowExecute(t)
  \/ \E t \in Tasks : ExecuteExecute(t)
  \/ \E t \in Tasks : ExecutemanyExecute(t)
  \/ \E t \in Tasks : Commit(t)
  \/ \E t \in Tasks : Count(t)
  \/ \E t \in Tasks : Select(t)
  \/ \E t \in Tasks : CallResolver(t)
  \/ \E t \in Tasks : CallFetchrow(t)
  \/ \E t \in Tasks : CallExploreTable(t)
  \/ \E t \in Tasks : Exit(t)
  \/ WriterInsert
  \/ WriterDelete

Spec == Init /\ [][Next]_vars

----------------------------------------------------------------------------
(* explore_table on arbitrary table references: every text of at most      *)
(* MaxRefLen lexemes, and longer texts that try to end the statement and   *)
(* run another.                                                            *)

RefAlphabet == {"t", ".", ";", Q, " ", "DROP"}

Payloads ==
  { <<"s", ".", "t">>,
    <<"s", ".", Q, "t", Q>>,
    <<"t", ";", "COMMIT">>,
    <<"t", ";", "DROP", "t">>,
    <<"t", ";", "DROP", "t", ";", "COMMIT">>,
    <<"t", Q, ";", "DROP", "t", ";", "COMMIT", ";">>,
    <<"s", ".", "t", ";", "DROP", " ", "s", ".", "t", ";", "COMMIT">>,
    <<"t", ".", "t", ".", "t", ".", "t">>,
    <<"d", ".", "s", ".", "t">> }

Refs == UNION {[1..k -> RefAlphabet] : k \in 0..MaxRefLen} \cup Payloads

StartExploreRef(t) ==
  \E c \in Connections(t), n \in Refs, o \in {0, 1} :
    Begin(t, NewCall("explore_table", c, <<>>, <<>>, "", Some(n), MaxLimit, o))

NextRef ==
  \/ \E t \in Tasks : StartExploreRef(t)
  \/ \E t \in Tasks : EnsureSupplied(t)
  \/ \E t \in Tasks : ConnectOk(t)
  \/ \E t \in Tasks : ConnectFail(t)
  \/ \E t \in Tasks : Count(t)
  \/ \E t \in Tasks : Select(t)
  \/ \E t \in Tasks : Exit(t)

SpecRef == Init /\ [][NextRef]_vars

----------------------------------------------------------------------------
(* Vocabulary of the properties.                                           *)

Done(t) == call[t].status \in {"returned", "raised"}
Returned(t) == call[t].status = "returned"
RaisedOut(t) == call[t].status = "raised"

LogIdx(t) == 1..Len(log[t])
Connects(t) == {i \in LogIdx(t) : log[t][i].ev = "connect"}
Opened(t) == {log[t][i].conn : i \in {j \in Connects(t) : log[t][j].err = "none"}}
Closes(t) == {i \in LogIdx(t) : log[t][i].ev = "close"}
Stmts(t) == {i \in LogIdx(t) : log[t][i].ev = "stmt"}
Failures(t) == {i \in LogIdx(t) : log[t][i].err # "none"}

\* Errors that come from the store being unreachable, failing a statement, or
\* the connection being closed, whatever the call asks for.
StoreFaults == {"ConnectionError", "ExecutionError", "OperationalError"}
Faulted(t) == \E i \in LogIdx(t) : log[t][i].err \in StoreFaults

Records(rid) == {i \in 1..Len(tables_index) : tables_index[i].resource_id = rid}
NoRecord(rid) == Records(rid) = {}
TheRecord(rid) == tables_index[CHOOSE i \in Records(rid) : TRUE]

\* The catalog key a table reference stands for when each of its dot-separated
\* parts is taken as a name, character for character.
RefName(ref) == ResolveName(Split(ref))
WellFormed(ref) ==
  /\ \A i \in 1..Len(Split(ref)) : Split(ref)[i] # <<>>
  /\ RefName(ref).err = "none"

\* rid has exactly one Index Record and it names an existing table.
ValidRecord(rid) ==
  /\ Cardinality(Records(rid)) = 1
  /\ ~Falsy(TheRecord(rid).parsing_table)
  /\ WellFormed(TheRecord(rid).parsing_table[1])
  /\ RefName(TheRecord(rid).parsing_table[1]).key \in DOMAIN tables

\* rid has exactly one Index Record and it names a table that does not exist.
StaleRecord(rid) ==
  /\ Cardinality(Records(rid)) = 1
  /\ ~Falsy(TheRecord(rid).parsing_table)
  /\ WellFormed(TheRecord(rid).parsing_table[1])
  /\ RefName(TheRecord(rid).parsing_table[1]).key \notin DOMAIN tables

RecordKey(rid) == RefName(TheRecord(rid).parsing_table[1]).key

----------------------------------------------------------------------------
(* Properties.                                                             *)

\* C1: in every operation and on every exit path (return, the not-found
\* return, a raised error), a connection the caller supplied is never closed
\* (it stays open, and every connection the call closes is one it opened),
\* and once the call has returned or raised every connection it opened is
\* closed.
C1_ConnectionsReleased ==
  \A t \in Tasks :
    /\ conns[CallerConn(t)] = "open"
    /\ \A i \in Closes(t) :
         log[t][i].conn # call[t].connection /\ log[t][i].conn \in Opened(t)
    /\ Done(t) => \A c \in Opened(t) : conns[c] = "closed"

\* An explore_resource call that opened its connection and raised the store's
\* table-not-found error has closed the connection.
C1_Witness ==
  \E t \in Tasks :
    /\ RaisedOut(t) /\ call[t].op = "explore_resource" /\ call[t].exc = "UndefinedTable"
    /\ Opened(t) # {} /\ \A c \in Opened(t) : conns[c] = "closed"

C3_TableNameAndCount ==
  \A t \in Tasks :
    (Returned(t) /\ call[t].op = "explore_resource" /\ ValidRecord(call[t].resource_id)) =>
      /\ call[t].result.table_name = TheRecord(call[t].resource_id).parsing_table
      /\ call[t].result.count \in sizes[t][RecordKey(call[t].resource_id)]

\* A resolved resource whose table held three rows throughout the call.
C3_Witness ==
  \E t \in Tasks :
    /\ Returned(t) /\ call[t].op = "explore_resource" /\ ValidRecord(call[t].resource_id)
    /\ sizes[t][RecordKey(call[t].resource_id)] = {3}
    /\ call[t].result.count = 3

\* C4: explore_table, and explore_resource for a resolved resource, return at
\* most limit rows, also when a writer adds rows between the counting and the
\* row-selection statement.
C4_AtMostLimitRows ==
  \A t \in Tasks :
    (Returned(t) /\ call[t].op \in {"explore_table", "explore_resource"}) =>
      Len(call[t].result.rows) <= call[t].limit

\* A page that is full and holds more rows than the count leaves after the
\* offset: the writer added a row after the count.
C4_Witness ==
  \E t \in Tasks :
    /\ Returned(t) /\ call[t].op \in {"explore_table", "explore_resource"}
    /\ Len(call[t].result.rows) = call[t].limit
    /\ Len(call[t].result.rows) > Max(0, call[t].result.count - call[t].offset)

\* C5: explore_resource called without a connection makes exactly one
\* connection attempt in the whole call (at most one while it runs), the
\* coroutines it calls open none and own none, and every statement runs on
\* the connection opened; called with a connection, it opens none and every
\* statement runs on the one supplied.
C5_OneConnection ==
  \A t \in Tasks :
    call[t].op = "explore_resource" =>
      /\ \A i \in Connects(t) : log[t][i].fn = "explore_resource"
      /\ \A i \in 2..Len(stack[t]) : ~stack[t][i].owned
      /\ IF call[t].connection = NoConn
         THEN /\ Cardinality(Connects(t)) <= 1
              /\ Done(t) => Cardinality(Connects(t)) = 1
              /\ \A i \in Stmts(t) : log[t][i].conn \in Opened(t)
         ELSE /\ Connects(t) = {}
              /\ \A i \in Stmts(t) : log[t][i].conn = call[t].connection

\* The lookup, the count and the selection all ran on the one connection the
\* call opened.
C5_Witness ==
  \E t \in Tasks :
    /\ Returned(t) /\ call[t].op = "explore_resource" /\ call[t].connection = NoConn
    /\ Cardinality(Stmts(t)) = 3 /\ Cardinality(Opened(t)) = 1
    /\ \A i \in Stmts(t) : log[t][i].conn \in Opened(t)

\* What the store answers to a reference whose parts are taken as names,
\* character for character: "none" when they name an existing table.
ExpectedError(ref) ==
  LET parts == Split(ref) IN
  IF (\E i \in 1..Len(parts) : parts[i] = <<>>) \/ Len(parts) > 3 THEN "SyntaxError"
  ELSE IF RefName(ref).err # "none" THEN RefName(ref).err
  ELSE IF RefName(ref).key \notin DOMAIN InitTables THEN "UndefinedTable"
  ELSE "none"

\* The call read the table its reference names, as the table was at the start.
ReadsNamedTable(t) ==
  LET ref == call[t].table_name[1]
      rows == InitTables[RefName(ref).key]
  IN /\ ExpectedError(ref) = "none"
     /\ Returned(t)
     /\ call[t].result.count = Len(rows)
     /\ call[t].result.rows = Window(rows, call[t].limit, call[t].offset)

\* At most the counting and the row-selection statement reach the store, one
\* statement per text, and no table is altered, dropped or written to.
OnlyTwoReads(t) ==
  /\ Cardinality(Stmts(t)) <= 2
  /\ \A i \in Stmts(t) :
       /\ log[t][i].n <= 1
       /\ log[t][i].q[1] = (IF \A j \in Stmts(t) : i <= j THEN "SELECT_COUNT_FROM" ELSE "SELECT_FROM")
  /\ tables = InitTables
  /\ \A c \in ConnIds : pending[c] = <<>>

C7_OneOrTwoParts ==
  \A t \in Tasks :
    \A i \in 1..Len(stack[t]) :
      (stack[t][i].fn = "explore_table" /\ stack[t][i].pc # "ensure") =>
        Len(Split(stack[t][i].table_name[1])) \in {1, 2}

\* C8: for a resolved resource whose table holds N rows throughout the call,
\* explore_resource returns exactly min(limit, max(0, N - offset)) rows, with
\* count N and limit and offset as given.
C8_ExactPage ==
  \A t \in Tasks :
    (Returned(t) /\ call[t].op = "explore_resource" /\ ValidRecord(call[t].resource_id)) =>
      \A n \in sizes[t][RecordKey(call[t].resource_id)] :
        sizes[t][RecordKey(call[t].resource_id)] = {n} =>
          /\ Len(call[t].result.rows) = Min(call[t].limit, Max(0, n - call[t].offset))
          /\ call[t].result.count = n
          /\ call[t].result.limit = call[t].limit
          /\ call[t].result.offset = call[t].offset

\* The scenario in small: 3 rows, limit 2, offset 1 give exactly 2 rows.
C8_Witness ==
  \E t \in Tasks :
    /\ Returned(t) /\ call[t].op = "explore_resource" /\ ValidRecord(call[t].resource_id)
    /\ sizes[t][RecordKey(call[t].resource_id)] = {3}
    /\ call[t].limit = 2 /\ call[t].offset = 1
    /\ Len(call[t].result.rows) = 2 /\ call[t].result.count = 3

\* C9: when the Index Record names a table that does not exist,
\* explore_resource never returns (neither the not-found result nor a partial
\* one): it raises, the error raised is the error the failed step gave, and
\* when the store itself does not fail it is the table-not-found error.
C9_MissingTableRaises ==
  \A t \in Tasks :
    (Done(t) /\ call[t].op = "explore_resource" /\ StaleRecord(call[t].resource_id)) =>
      /\ RaisedOut(t)
      /\ call[t].result = None
      /\ \E i \in Failures(t) : log[t][i].err = call[t].exc
      /\ ~Faulted(t) => call[t].exc = "UndefinedTable"

\* The lookup found the record, the count failed on the missing table, and
\* the call raised the table-not-found error.
C9_Witness ==
  \E t \in Tasks :
    /\ RaisedOut(t) /\ call[t].op = "explore_resource" /\ StaleRecord(call[t].resource_id)
    /\ call[t].exc = "UndefinedTable" /\ Cardinality(Stmts(t)) = 2

\* C10: no call retries.  A call makes at most one connection attempt, issues
\* no statement twice (executemany issues its statement once per argument
\* tuple) and commits at most once; after a failed step nothing follows but
\* the release of the connection; a failed connection attempt is the only
\* thing the call did, and it leaves no connection behind.
C10_NoRetry ==
  \A t \in Tasks :
    /\ Cardinality(Connects(t)) <= 1
    /\ Cardinality({i \in LogIdx(t) : log[t][i].ev = "commit"}) <= 1
    /\ \A i, j \in LogIdx(t) : (i < j /\ log[t][i].err # "none") => log[t][j].ev = "close"
    /\ \A i, j \in Stmts(t) :
         (i # j /\ log[t][i].q = log[t][j].q) => call[t].op = "executemany"
    /\ call[t].op = "executemany" => Cardinality(Stmts(t)) <= Len(call[t].args)
    /\ (\E i \in Connects(t) : log[t][i].err # "none") =>
         /\ Len(log[t]) = 1
         /\ Opened(t) = {}
         /\ \A c \in ConnIds : conns[c] = "open" => \E u \in Tasks : c = CallerConn(u)
         /\ Done(t) => (RaisedOut(t) /\ call[t].exc = "ConnectionError")

\* explore_table counted, the row selection failed, and the call raised that
\* error after closing its connection: four steps, no second attempt.
C10_Witness ==
  \E t \in Tasks :
    /\ RaisedOut(t) /\ call[t].op = "explore_table" /\ call[t].exc = "ExecutionError"
    /\ Len(log[t]) = 4 /\ Cardinality(Stmts(t)) = 2

\* The rows of tables_index that match rid, in storage order.
Matches(rid) == SelectSeq(tables_index, LAMBDA rec : rec.resource_id = rid)

\* C11: fetchrow does not raise when its query matches no row: it returns
\* None then, and the first matching row otherwise (an empty table scanned
\* gives None, a non-empty one a row); get_table_name_for_resource returns
\* the parsing_table of the first matching Index Record, and None when there
\* is no record.  Only a failure of the store makes either raise.
C11_FirstRowOrNone ==
  \A t \in Tasks :
    (Done(t) /\ call[t].op \in {"fetchrow", "get_table_name_for_resource"}) =>
      IF Faulted(t) THEN RaisedOut(t) /\ call[t].exc \in StoreFaults
      ELSE /\ Returned(t)
           /\ call[t].op = "get_table_name_for_resource" =>
                call[t].result =
                  (IF Matches(call[t].resource_id) = <<>> THEN None
                   ELSE Matches(call[t].resource_id)[1].parsing_table)
           /\ (call[t].op = "fetchrow" /\ call[t].query = LookupText) =>
                call[t].result =
                  (IF Matches(call[t].args[1]) = <<>> THEN None
                   ELSE Some(Matches(call[t].args[1])[1]))
           /\ (call[t].op = "fetchrow" /\ call[t].query = ScanText) =>
                /\ call[t].result = None => 0 \in sizes[t][<<PublicSchema, T>>]
                /\ call[t].result # None =>
                     \E n \in sizes[t][<<PublicSchema, T>>] : n > 0

\* fetchrow has looked up a resource_id that no record has and returned None.
C11_Witness ==
  \E t \in Tasks :
    /\ Returned(t) /\ call[t].op = "fetchrow" /\ call[t].query = LookupText
    /\ Matches(call[t].args[1]) = <<>> /\ call[t].result = None
    /\ Cardinality(Stmts(t)) = 1 /\ Failures(t) = {}

CommitEvents(t) == {i \in LogIdx(t) : log[t][i].ev = "commit"}

\* The number of times a write call runs its statement: once for execute,
\* once per argument tuple for executemany.
Runs(t) == IF call[t].op = "execute" THEN 1 ELSE Len(call[t].args)

RECURSIVE Repeat(_, _)
Repeat(x, n) == IF n = 0 THEN <<>> ELSE <<x>> \o Repeat(x, n - 1)

\* C12: execute and executemany commit at most once, and only after the
\* statement has run without error once (execute) or once for every
\* argument tuple (executemany); nothing is run after the commit.  A call
\* that returns has committed exactly once, and its rows are in the table;
\* when a statement raises there is no commit, nothing is stored, and the
\* connection the call opened is closed.
C12_OneCommitAfterStatements ==
  \A t \in Tasks :
    call[t].op \in {"execute", "executemany"} =>
      /\ Cardinality(CommitEvents(t)) <= 1
      /\ \A i \in CommitEvents(t) :
           /\ Cardinality({j \in Stmts(t) : j < i}) = Runs(t)
           /\ \A j \in Stmts(t) : j < i /\ log[t][j].err = "none"
      /\ (\E j \in Stmts(t) : log[t][j].err # "none") => CommitEvents(t) = {}
      /\ Returned(t) =>
           /\ \E i \in CommitEvents(t) : log[t][i].err = "none"
           /\ writes = 0 =>
                tables[<<PublicSchema, T>>] =
                  InitTables[<<PublicSchema, T>>] \o Repeat(NewRow, Runs(t))
      /\ RaisedOut(t) =>
           /\ \A c \in Opened(t) : conns[c] = "closed"
           /\ writes = 0 => tables = InitTables

\* executemany has run its statement for two argument tuples, committed once
\* and returned.
C12_Witness ==
  \E t \in Tasks :
    /\ Returned(t) /\ call[t].op = "executemany" /\ Len(call[t].args) = 2
    /\ Cardinality(Stmts(t)) = 2 /\ Cardinality(CommitEvents(t)) = 1

ReadOps == {"fetch", "fetchrow", "get_table_name_for_resource", "explore_table",
            "explore_resource"}

\* Task t takes a step of its call.
Steps(t) == stack'[t] # stack[t] \/ log'[t] # log[t]

\* C13: no step of fetch, fetchrow, get_table_name_for_resource,
\* explore_table or explore_resource changes tables_index or any table, none
\* issues a commit, and none leaves an uncommitted change on its connection.
C13_ReadsChangeNothing ==
  [][\A t \in Tasks :
       (call'[t].op \in ReadOps /\ Steps(t)) =>
         /\ tables' = tables
         /\ tables_index' = tables_index
         /\ CommitEvents(t)' = {}
         /\ \A c \in ConnIds : pending'[c] = pending[c]]_vars

\* explore_resource has run its three statements and returned while nothing
\* else wrote: the store is as it was at the start.
C13_Witness ==
  \E t \in Tasks :
    /\ Returned(t) /\ call[t].op = "explore_resource" /\ Cardinality(Stmts(t)) = 3
    /\ writes = 0 /\ tables = InitTables /\ tables_index = InitIndex
    /\ CommitEvents(t) = {}

\* C14: explore_table runs its counting statement before its row selection,
\* both on one connection and with no commit in between, so each sees the
\* table as it is at its own moment: count is a row count the table had
\* during the call and the rows are the page of a row count it had during
\* the call, not necessarily the same one.
C14_CountThenSelect ==
  \A t \in Tasks :
    call[t].op \in {"explore_table", "explore_resource"} =>
      /\ CommitEvents(t) = {}
      /\ \A j \in Stmts(t) :
           log[t][j].q[1] = "SELECT_FROM" =>
             \E i \in Stmts(t) :
               /\ i < j /\ log[t][i].q[1] = "SELECT_COUNT_FROM"
               /\ log[t][i].err = "none" /\ log[t][i].conn = log[t][j].conn
               /\ log[t][i].fn = "explore_table" /\ log[t][j].fn = "explore_table"
      /\ (Returned(t) /\ call[t].op = "explore_table") =>
           \E n, m \in sizes[t][RefName(call[t].table_name[1]).key] :
             /\ call[t].result.count = n
             /\ Len(call[t].result.rows) = Min(call[t].limit, Max(0, m - call[t].offset))

\* count and rows disagree: a row was inserted after the count, and more rows
\* came back than the count leaves after the offset.
C14_Witness ==
  \E t \in Tasks :
    /\ Returned(t) /\ call[t].op = "explore_table" /\ writes > 0
    /\ Len(call[t].result.rows) > Max(0, call[t].result.count - call[t].offset)
    /\ Cardinality(sizes[t][RefName(call[t].table_name[1]).key]) > 1

----------------------------------------------------------------------------
(* The Tabular API client: fetch_resource_data and fetch_resource_profile. *)
(* A session handle is an entry of conns; the caller's session is open.    *)

MaxPage == 2

\* The names helpers/datagouv_api_client.py defines at module level.
ClientAttributes ==
  {"datagouv_api_base_url", "_fetch_json", "get_resource_metadata",
   "get_dataset_metadata", "get_resource_and_dataset_metadata",
   "get_resources_for_dataset", "search_datasets"}

\* The resources the Tabular API holds; it answers 404 for any other.
Available == {"abc"}
TabResourceIds == {"abc", "invalid-id"}
Pages == 0..MaxPage

TabFrame(fn, session, resource_id, page, page_size) ==
  [fn |-> fn, pc |-> "get_session", session |-> session, sess |-> NoConn,
   owns_session |-> FALSE, resource_id |-> resource_id,
   page |-> page, page_size |-> page_size, query_params |-> <<0, 0>>,
   ret |-> None, exc |-> "none"]

TabCall(op, session, resource_id, page, page_size) ==
  [status |-> "idle", op |-> op, session |-> session, resource_id |-> resource_id,
   page |-> page, page_size |-> page_size, result |-> None, exc |-> "none"]

BeginTab(t, c) ==
  /\ call[t].status = "idle"
  /\ call' = [call EXCEPT ![t] = [c EXCEPT !.status = "running"]]
  /\ stack' = [stack EXCEPT ![t] =
                 <<TabFrame(c.op, c.session, c.resource_id, c.page, c.page_size)>>]
  /\ UNCHANGED <<tables, tables_index, conns, pending, log, sizes, writes>>

StartFetchData(t) ==
  \E s \in Connections(t), r \in TabResourceIds, p \in Pages, z \in Pages :
    BeginTab(t, TabCall("fetch_resource_data", s, r, p, z))

\* fetch_resource_profile takes no page: the profile has none.
StartFetchProfile(t) ==
  \E s \in Connections(t), r \in TabResourceIds :
    BeginTab(t, TabCall("fetch_resource_profile", s, r, 1, 1))

TabFns == {"fetch_resource_data", "fetch_resource_profile"}

\* if session is not None: return session, False
GetSessionSupplied(t) ==
  /\ At(t, TabFns, "get_session")
  /\ Top(t).session # NoConn
  /\ stack' = SetTop(t, [Top(t) EXCEPT !.sess = Top(t).session,
                                       !.owns_session = FALSE, !.pc = "base_url"])
  /\ UNCHANGED <<tables, tables_index, conns, pending, call, log, sizes, writes>>

\* new_session = aiohttp.ClientSession(); return new_session, True
GetSessionNew(t) ==
  /\ At(t, TabFns, "get_session")
  /\ Top(t).session = NoConn
  /\ \E c \in ConnIds : conns[c] = "free"
  /\ conns' = [conns EXCEPT ![FreshConn] = "open"]
  /\ stack' = SetTop(t, [Top(t) EXCEPT !.sess = FreshConn,
                                       !.owns_session = TRUE, !.pc = "base_url"])
  /\ log' = Logged(t, Event("connect", Top(t), FreshConn, <<>>, "none", 0))
  /\ UNCHANGED <<tables, tables_index, pending, call, sizes, writes>>

\* module.name: AttributeError when the module does not define the name.
AttributeLookup(module, name) ==
  IF name \in module THEN "found" ELSE "AttributeError"

\* base_url = datagouv_api_client.tabular_api_base_url(), the first statement
\* of the try: the lookup of the function in the module comes before its call.
BaseUrl(t) ==
  /\ At(t, TabFns, "base_url")
  /\ LET f == Top(t)
         found == AttributeLookup(ClientAttributes, "tabular_api_base_url")
     IN stack' = SetTop(t,
          IF found = "found"
          THEN [f EXCEPT !.query_params = <<Max(f.page, 1), Max(f.page_size, 1)>>,
                         !.pc = "get"]
          ELSE [f EXCEPT !.exc = found, !.pc = "finally"])
  /\ UNCHANGED <<tables, tables_index, conns, pending, call, log, sizes, writes>>

\* async with sess.get(url, ...) as resp: 404 raises ResourceNotAvailableError,
\* raise_for_status raises for any other error status, the request itself may
\* fail, and otherwise the decoded body is returned.
Get(t) ==
  /\ At(t, TabFns, "get")
  /\ LET f == Top(t) IN
     \E answer \in {"ok", "error_status", "network"} :
       LET err ==
             CASE conns[f.sess] # "open" -> "RuntimeError"
               [] answer = "network" -> "ClientConnectionError"
               [] f.resource_id \notin Available -> "ResourceNotAvailableError"
               [] answer = "error_status" -> "ClientResponseError"
               [] OTHER -> "none"
       IN /\ stack' = SetTop(t, [f EXCEPT !.exc = err, !.pc = "finally",
                                          !.ret = IF err = "none" THEN Some(f.resource_id)
                                                  ELSE None])
          /\ log' = Logged(t, Event("stmt", f, f.sess, <<>>, err, 0))
  /\ UNCHANGED <<tables, tables_index, conns, pending, call, sizes, writes>>

\* finally: if owns_session: await sess.close()
ClosesSession(f) == f.owns_session

\* The finally clause and the return or raise of the function.
Finally(t) ==
  /\ At(t, TabFns, "finally")
  /\ LET f == Top(t) IN
     /\ IF ClosesSession(f)
        THEN /\ conns' = [conns EXCEPT ![f.sess] = "closed"]
             /\ log' = Logged(t, Event("close", f, f.sess, <<>>, "none", 0))
        ELSE UNCHANGED <<conns, log>>
     /\ stack' = LeaveStack(t, f.ret, f.exc)
     /\ call' = LeaveCall(t, f.ret, f.exc)
  /\ UNCHANGED <<tables, tables_index, pending, sizes, writes>>

\* No call reaches Get: the lookup in BaseUrl raises in every call.
NextTab ==
  \/ \E t \in Tasks : StartFetchData(t)
  \/ \E t \in Tasks : StartFetchProfile(t)
  \/ \E t \in Tasks : GetSessionSupplied(t)
  \/ \E t \in Tasks : GetSessionNew(t)
  \/ \E t \in Tasks : BaseUrl(t)
  \/ \E t \in Tasks : Finally(t)

SpecTab == Init /\ [][NextTab]_vars

\* C15: a finished fetch_resource_data or fetch_resource_profile call for a
\* resource the Tabular API answers 404 for has raised
\* ResourceNotAvailableError; on every exit path a session the function
\* created is closed and a session the caller supplied is still open.
C15_NotAvailableOn404 ==
  \A t \in Tasks :
    (Done(t) /\ call[t].op \in TabFns) =>
      /\ call[t].resource_id \notin Available =>
           (RaisedOut(t) /\ call[t].exc = "ResourceNotAvailableError")
      /\ \A c \in Opened(t) : conns[c] = "closed"
      /\ call[t].session # NoConn => conns[call[t].session] = "open"

----------------------------------------------------------------------------
(* Several explore_resource calls at once, none with a supplied            *)
(* connection: the coroutines interleave at every await.                   *)

MaxCalls == 2

ConcResourceIds == {"abc", "missing-id"}

StartConcurrent(t) ==
  \E r \in ConcResourceIds :
    Begin(t, NewCall("explore_resource", NoConn, <<>>, <<>>, r, None, 1, 0))

NextConc ==
  \/ \E t \in Tasks : StartConcurrent(t)
  \/ \E t \in Tasks : ConnectOk(t)
  \/ \E t \in Tasks : ConnectFail(t)
  \/ \E t \in Tasks : EnsureSupplied(t)
  \/ \E t \in Tasks : CallResolver(t)
  \/ \E t \in Tasks : CallFetchrow(t)
  \/ \E t \in Tasks : FetchrowExecute(t)
  \/ \E t \in Tasks : CallExploreTable(t)
  \/ \E t \in Tasks : Count(t)
  \/ \E t \in Tasks : Select(t)
  \/ \E t \in Tasks : Exit(t)

SpecConc == InitWith(MaxCalls) /\ [][NextConc]_vars

\* C16: of explore_resource calls running at once without a supplied
\* connection, each sends statements only on a connection it opened and
\* closes only such a connection, no two calls open the same connection, no
\* call finds its connection closed by another, and when all have finished
\* every connection any of them opened is closed.
C16_EachCallItsOwnConnection ==
  /\ \A t \in Tasks :
       /\ \A i \in Stmts(t) \cup Closes(t) : log[t][i].conn \in Opened(t)
       /\ \A i \in Stmts(t) : log[t][i].err # "OperationalError"
       /\ \A u \in Tasks \ {t} : Opened(t) \cap Opened(u) = {}
  /\ (\A t \in Tasks : Done(t)) =>
       \A t \in Tasks : \A c \in Opened(t) : conns[c] = "closed"

\* One call has connected after another and finished before it: the first
\* is still between its statements on its own open connection.
C16_Witness ==
  \E t, u \in Tasks :
    /\ t # u /\ Returned(t) /\ Closes(t) # {}
    /\ call[u].status = "running" /\ Stmts(u) # {}
    /\ \E c \in Opened(t), d \in Opened(u) : d < c /\ conns[c] = "closed" /\ conns[d] = "open"

\* C17: in an explore_resource call that opens its own connection, no
\* statement meets a closed connection, every statement comes before the
\* close, the connection is closed at most once and exactly once when the
\* call is done, only by explore_resource itself, and the coroutines it
\* awaits are handed that connection and find it open.
C17_ClosedOnceAtTheEnd ==
  \A t \in Tasks :
    (call[t].op = "explore_resource" /\ call[t].connection = NoConn) =>
      /\ \A i \in Stmts(t) : log[t][i].err # "OperationalError"
      /\ \A i \in Stmts(t) : \A j \in Closes(t) : i < j
      /\ Cardinality(Closes(t)) <= 1
      /\ \A j \in Closes(t) :
           log[t][j].fn = "explore_resource" /\ log[t][j].conn \in Opened(t)
      /\ (Done(t) /\ Opened(t) # {}) =>
           (Cardinality(Closes(t)) = 1 /\ log[t][Len(log[t])].ev = "close")
      /\ \A i \in 2..Len(stack[t]) :
           /\ stack[t][i].connection \in Opened(t)
           /\ conns[stack[t][i].connection] = "open"
           /\ stack[t][i].conn \in {NoConn, stack[t][i].connection}

\* The call has returned rows: the lookup, the count and the selection were
\* sent, then the one close, by explore_resource.
C17_Witness ==
  \E t \in Tasks :
    /\ Returned(t) /\ call[t].op = "explore_resource" /\ call[t].connection = NoConn
    /\ call[t].result.table_name # None
    /\ Cardinality(Stmts(t)) = 3 /\ Cardinality(Closes(t)) = 1
    /\ log[t][Len(log[t])].ev = "close" /\ log[t][Len(log[t])].fn = "explore_resource"

\* rid has exactly one Index Record and its parsing_table is NULL or the
\* empty string.
EmptyRecord(rid) ==
  /\ Cardinality(Records(rid)) = 1
  /\ TheRecord(rid).parsing_table \in {None, Some(<<>>)}

\* C18: for a resource whose Index Record has a NULL or empty parsing_table,
\* explore_resource does what it does for a missing record: explore_table is
\* never invoked, only the lookup is sent, and when the store answers the
\* call returns the result with table_name null, no rows and count 0; and
\* whatever the resource, explore_table is invoked by explore_resource only
\* with a non-empty table name.
C18_EmptyTableNameIsNotFound ==
  \A t \in Tasks :
    call[t].op = "explore_resource" =>
      /\ EmptyRecord(call[t].resource_id) =>
           /\ \A i \in 1..Len(stack[t]) : stack[t][i].fn # "explore_table"
           /\ \A i \in Stmts(t) : log[t][i].q = LookupText
           /\ Done(t) =>
                IF Faulted(t) THEN RaisedOut(t) /\ call[t].exc \in StoreFaults
                ELSE /\ Returned(t)
                     /\ call[t].result.table_name = None
                     /\ call[t].result.rows = <<>> /\ call[t].result.count = 0
                     /\ call[t].result.resource_id = call[t].resource_id
                     /\ call[t].result.limit = call[t].limit
                     /\ call[t].result.offset = call[t].offset
      /\ \A i \in 2..Len(stack[t]) :
           stack[t][i].fn = "explore_table" =>
             (stack[t][i].table_name # None /\ Len(stack[t][i].table_name[1]) > 0)

\* The lookup found the record with the empty string as its table and the
\* call has returned without another statement.
C18_Witness ==
  \E t \in Tasks :
    /\ Returned(t) /\ call[t].op = "explore_resource"
    /\ EmptyRecord(call[t].resource_id)
    /\ TheRecord(call[t].resource_id).parsing_table = Some(<<>>)
    /\ Cardinality(Stmts(t)) = 1 /\ Failures(t) = {}
    /\ call[t].result.table_name = None

====
